---- MODULE Spec2Model ----
(***************************************************************************)
(* Resilient catalog cache of the art_gallery storefront client:           *)
(*   cacheService        src/services/cache.service.ts                     *)
(*   apiClient, artworkApi   src/services/api.service.ts (listed in        *)
(*                       ETAG_CACHING_GUIDE.md)                            *)
(*   view loaders        Prints, ArtworkDetail, EditArtwork,               *)
(*                       ManageArtworks                                    *)
(* The browser is single threaded: a handler runs to its next network      *)
(* await without interruption.  A network call is split in three steps:    *)
(* the client sends, the server answers, the client receives.              *)
(***************************************************************************)
EXTENDS Integers, Sequences, FiniteSets, TLC

VARIABLES
    localStorage,   \* the browser's localStorage
    now,            \* Date.now()
    srvCatalog,     \* the backend's item list
    srvVersion,     \* the version of the backend's item list
    srvShape,       \* the envelope the backend wraps the list in
    calls,          \* the calls awaiting the network
    ackVersion,     \* the newest version a successful mutation reported
    returned,       \* what the fetch that stored the cache entry returned
    last            \* the call whose last step was just taken

vars == <<localStorage, now, srvCatalog, srvVersion, srvShape, calls,
          ackVersion, returned, last>>

(***************************************************************************)
(* Bounds                                                                  *)
(***************************************************************************)
MaxCalls == 2
MaxVersion == 2
MaxClock == 1

Slots == 1..MaxCalls

(***************************************************************************)
(* Values                                                                  *)
(***************************************************************************)
\* JavaScript null, as returned by localStorage.getItem for a missing key
NULL == [null |-> TRUE]

\* the cache key every caller of this program uses, and a second key
CatalogKey == "admin_art"
Keys == {"admin_art", "orders"}

\* localStorage keys of the other parts of the program
OtherKeys == {"authToken", "user", "artGalleryUser", "artGalleryCart",
              "favorite_artworks"}

\* the entity tag of version n of the catalog
ETagOf(n) == [tag |-> n]
ETags == {ETagOf(n) : n \in 1..(MaxVersion + 1)}

\* envelope shapes of the catalog payload
Shapes == {"array", "data.items", "items", "artworks", "data", "results",
           "other"}

\* a response body: the item list wrapped in an envelope
Envelope(shape, items, ver) == [shape |-> shape, items |-> items, ver |-> ver]

\* the paths of a payload object at which a view looks for the item list
Paths == {"data.items", "items", "artworks", "data", "results"}

\* a response body that is an object with lists at several paths: fields
\* maps each path to NULL (nothing there) or to [array |-> list]
Object(fields, ver) ==
    [shape |-> "object", fields |-> fields, items |-> <<>>, ver |-> ver]

\* JavaScript truthiness of a payload: null is falsy, objects and arrays
\* (also empty ones) are truthy
Truthy(d) == d # NULL

(***************************************************************************)
(* cacheService                                                            *)
(***************************************************************************)
\* JSON.stringify of a CacheEntry and JSON.parse of the stored string
JSONstringify(entry) == [json |-> entry]
JSONparse(str) == str.json

SetDropsETag(ls, key, data, etag, t) ==
    [ls EXCEPT !.api_cache_[key] =
                   JSONstringify([data |-> data, etag |-> etag, timestamp |-> t]),
               !.inm = etag]

SetStampsRemaining(ls, key, data, etag, t) ==
    [ls EXCEPT !.api_cache_[key] =
                   JSONstringify([data |-> data, etag |-> etag,
                                  timestamp |-> MaxClock - t]),
               !.etag_[key] = etag,
               !.inm = etag]

\* cacheService.set at time t
Set(ls, key, data, etag, t) ==
    [ls EXCEPT !.api_cache_[key] =
                   JSONstringify([data |-> data, etag |-> etag, timestamp |-> t]),
               !.etag_[key] = etag,
               !.inm = etag]

\* cacheService.get
Get(ls, key) ==
    LET cached == ls.api_cache_[key]
    IN  IF cached = NULL THEN NULL ELSE JSONparse(cached).data

\* cacheService.getETag
GetETag(ls, key) == ls.etag_[key]

\* cacheService.getIfNoneMatch
GetIfNoneMatch(ls) == ls.inm

\* cacheService.has
Has(ls, key) == ls.api_cache_[key] # NULL

RemoveKeepsETag(ls, key) == [ls EXCEPT !.api_cache_[key] = NULL]

\* cacheService.remove
Remove(ls, key) ==
    [ls EXCEPT !.api_cache_[key] = NULL, !.etag_[key] = NULL]

ClearWholeStorage(ls) ==
    [ls EXCEPT !.api_cache_ = [k \in Keys |-> NULL],
               !.etag_ = [k \in Keys |-> NULL],
               !.inm = NULL,
               !.other = {}]

\* cacheService.clear
Clear(ls) ==
    [ls EXCEPT !.api_cache_ = [k \in Keys |-> NULL],
               !.etag_ = [k \in Keys |-> NULL],
               !.inm = NULL]

\* cacheService.getCacheAge at time t
GetCacheAge(ls, key, t) ==
    LET cached == ls.api_cache_[key]
    IN  IF cached = NULL THEN NULL ELSE [age |-> t - JSONparse(cached).timestamp]

\* the timestamp of the stored entry (CacheEntry.timestamp), NULL if none
StoredAt(ls, key) ==
    LET cached == ls.api_cache_[key]
    IN  IF cached = NULL THEN NULL ELSE [at |-> JSONparse(cached).timestamp]

\* localStorage of a browser that has not run the program yet, signed in
EmptyStorage ==
    [api_cache_ |-> [k \in Keys |-> NULL],
     etag_ |-> [k \in Keys |-> NULL],
     inm |-> NULL,
     other |-> OtherKeys]

\* cacheService.isExpired at time t
IsExpired(ls, key, maxAge, t) ==
    IF GetCacheAge(ls, key, t) = NULL THEN TRUE
    ELSE GetCacheAge(ls, key, t).age > maxAge

(***************************************************************************)
(* cacheService over a storage that fails                                  *)
(*                                                                         *)
(* fault = 0: no localStorage call of the operation raises; fault = n: its *)
(* n-th localStorage call raises (QuotaExceededError, SecurityError).      *)
(***************************************************************************)
\* records that are not the JSON of a CacheEntry: a string JSON.parse
\* rejects, and the string "{}"
Garbled == [garbled |-> TRUE]
EmptyObject == [emptyObject |-> TRUE]

\* the number NaN
NaN == [nan |-> TRUE]

\* a boolean result
Bool(b) == [bool |-> b]

Intact(record) == record \notin {NULL, Garbled, EmptyObject}

\* what a call did: the storage it leaves, the value it returned (NULL
\* for null, undefined and void), and whether it threw
Did(ls, value, raised) == [ls |-> ls, value |-> value, raised |-> raised]

\* cacheService.set: three setItem calls inside one try
SetWhen(ls, key, data, etag, t, fault) ==
    LET all == Set(ls, key, data, etag, t)
    IN  Did(CASE fault = 0 -> all
              [] fault = 1 -> ls
              [] fault = 2 -> [ls EXCEPT !.api_cache_[key] = all.api_cache_[key]]
              [] fault = 3 -> [ls EXCEPT !.api_cache_[key] = all.api_cache_[key],
                                         !.etag_[key] = all.etag_[key]],
            NULL, FALSE)

\* cacheService.get: getItem and JSON.parse inside a try
GetWhen(ls, key, fault) ==
    Did(ls,
        IF fault = 1 \/ ~Intact(ls.api_cache_[key]) THEN NULL ELSE Get(ls, key),
        FALSE)

\* cacheService.getETag
GetETagWhen(ls, key, fault) ==
    Did(ls, IF fault = 1 THEN NULL ELSE GetETag(ls, key), FALSE)

\* cacheService.getIfNoneMatch
GetIfNoneMatchWhen(ls, fault) ==
    Did(ls, IF fault = 1 THEN NULL ELSE GetIfNoneMatch(ls), FALSE)

\* cacheService.has: getItem(...) !== null, outside any try
HasWhen(ls, key, fault) ==
    IF fault = 1 THEN Did(ls, NULL, TRUE)
    ELSE Did(ls, Bool(ls.api_cache_[key] # NULL), FALSE)

\* cacheService.remove: two removeItem calls inside one try
RemoveWhen(ls, key, fault) ==
    Did(CASE fault = 0 -> Remove(ls, key)
          [] fault = 1 -> ls
          [] fault = 2 -> [ls EXCEPT !.api_cache_[key] = NULL],
        NULL, FALSE)

\* cacheService.clear: Object.keys, the removals by prefix, and the
\* removal of 'If-None-Match', inside one try
ClearWhen(ls, fault) ==
    Did(CASE fault = 0 -> Clear(ls)
          [] fault = 1 -> ls
          [] fault = 2 -> [Clear(ls) EXCEPT !.inm = ls.inm],
        NULL, FALSE)

\* cacheService.getCacheAge at time t: Date.now() - undefined is NaN
GetCacheAgeWhen(ls, key, t, fault) ==
    Did(ls,
        IF fault = 1 \/ ls.api_cache_[key] \in {NULL, Garbled} THEN NULL
        ELSE IF ls.api_cache_[key] = EmptyObject THEN NaN
        ELSE GetCacheAge(ls, key, t),
        FALSE)

\* cacheService.isExpired at time t: NaN > maxAge is false
IsExpiredWhen(ls, key, maxAge, t, fault) ==
    LET age == GetCacheAgeWhen(ls, key, t, fault).value
    IN  Did(ls,
            Bool(IF age = NULL THEN TRUE
                 ELSE IF age = NaN THEN FALSE
                 ELSE age.age > maxAge),
            FALSE)

(***************************************************************************)
(* The backend                                                             *)
(***************************************************************************)
\* a catalog item; rev is the catalog version that last wrote it
Item(id, rev) == [id |-> id, rev |-> rev]

\* the catalog the backend starts with, at version 1
InitialCatalog == <<Item(1, 1), Item(2, 1)>>

\* the identifier the backend gives to the item created in version ver
NewId(ver) == 10 + ver

\* identifiers a view is opened with: an item of the initial catalog and
\* one that is neither in a catalog nor in the static data
ViewIds == {1, 9}

\* identifiers an update or a delete is aimed at
TargetIds == {1}

\* the list without the item id
RECURSIVE Without(_, _)
Without(list, id) ==
    IF list = <<>> THEN <<>>
    ELSE IF Head(list).id = id THEN Without(Tail(list), id)
    ELSE <<Head(list)>> \o Without(Tail(list), id)

\* the list with item id rewritten in version ver
Touch(list, id, ver) ==
    [i \in 1..Len(list) |-> IF list[i].id = id THEN Item(id, ver) ELSE list[i]]

Contains(list, id) == \E i \in 1..Len(list) : list[i].id = id

\* the catalog after a mutation that produces version ver
Apply(op, list, id, ver) ==
    CASE op = "create" -> Append(list, Item(NewId(ver), ver))
      [] op = "update" -> Touch(list, id, ver)
      [] op = "delete" -> Without(list, id)

\* a response; status 0 stands for "no response" (transport failure);
\* ver is the catalog version the backend was at when it answered
Response(status, data, etag, ver) ==
    [status |-> status, data |-> data, etag |-> etag, ver |-> ver]

\* error statuses: 403, 404 and 5xx are only logged by the response
\* interceptor and stand together as 500; 401 also signs the user out and
\* leaves the page for /login, which ends the program run modelled here
ErrorStatuses == {500}

(***************************************************************************)
(* apiClient: the axios instance and its interceptors                      *)
(***************************************************************************)
RequestInterceptorAnyMethod(ls, method, url) ==
    [method |-> method, url |-> url,
     inm |-> IF url = "/admin/art" /\ GetIfNoneMatch(ls) # NULL
             THEN GetIfNoneMatch(ls) ELSE NULL,
     auth |-> "authToken" \in ls.other]

\* apiClient.interceptors.request: the request as sent
RequestInterceptor(ls, method, url) ==
    [method |-> method, url |-> url,
     inm |-> IF url = "/admin/art" /\ method = "get" /\ GetIfNoneMatch(ls) # NULL
             THEN GetIfNoneMatch(ls) ELSE NULL,
     auth |-> "authToken" \in ls.other]

\* the settled promise of an apiClient call: fulfilled (ok) with data, or
\* rejected with the error's response status (0: no response); ls is
\* localStorage afterwards
Settled(ok, data, status, ls) ==
    [ok |-> ok, data |-> data, status |-> status, ls |-> ls]

ResponseInterceptor304Writes(ls, req, resp, t) ==
    IF resp.status \in 200..299
    THEN Settled(TRUE, resp.data, resp.status,
                 IF req.url = "/admin/art" /\ req.method = "get"
                    /\ resp.etag # NULL /\ Truthy(resp.data)
                 THEN Set(ls, CatalogKey, resp.data, resp.etag, t)
                 ELSE ls)
    ELSE IF resp.status = 304 /\ req.url = "/admin/art"
            /\ Truthy(Get(ls, CatalogKey))
    THEN Settled(TRUE, Get(ls, CatalogKey), 304,
                 Set(ls, CatalogKey, Get(ls, CatalogKey), req.inm, t))
    ELSE Settled(FALSE, NULL, resp.status,
                 IF resp.status = 401
                 THEN [ls EXCEPT !.other = @ \ {"authToken", "user"}]
                 ELSE ls)

ResponseInterceptorEmptyOn304(ls, req, resp, t) ==
    IF resp.status \in 200..299
    THEN Settled(TRUE, resp.data, resp.status,
                 IF req.url = "/admin/art" /\ req.method = "get"
                    /\ resp.etag # NULL /\ Truthy(resp.data)
                 THEN Set(ls, CatalogKey, resp.data, resp.etag, t)
                 ELSE ls)
    ELSE IF resp.status = 304 /\ req.url = "/admin/art"
    THEN Settled(TRUE, Get(ls, CatalogKey), 304, ls)
    ELSE Settled(FALSE, NULL, resp.status,
                 IF resp.status = 401
                 THEN [ls EXCEPT !.other = @ \ {"authToken", "user"}]
                 ELSE ls)

ResponseInterceptorKeepsFirst(ls, req, resp, t) ==
    IF resp.status \in 200..299
    THEN Settled(TRUE, resp.data, resp.status,
                 IF req.url = "/admin/art" /\ req.method = "get"
                    /\ resp.etag # NULL /\ Truthy(resp.data)
                    /\ ~Has(ls, CatalogKey)
                 THEN Set(ls, CatalogKey, resp.data, resp.etag, t)
                 ELSE ls)
    ELSE IF resp.status = 304 /\ req.url = "/admin/art"
            /\ Truthy(Get(ls, CatalogKey))
    THEN Settled(TRUE, Get(ls, CatalogKey), 304, ls)
    ELSE Settled(FALSE, NULL, resp.status,
                 IF resp.status = 401
                 THEN [ls EXCEPT !.other = @ \ {"authToken", "user"}]
                 ELSE ls)

ResponseInterceptorStoresAnyBody(ls, req, resp, t) ==
    IF resp.status \in 200..299
    THEN Settled(TRUE, resp.data, resp.status,
                 IF req.url = "/admin/art" /\ req.method = "get"
                    /\ resp.etag # NULL
                 THEN Set(ls, CatalogKey, resp.data, resp.etag, t)
                 ELSE ls)
    ELSE IF resp.status = 304 /\ req.url = "/admin/art"
            /\ Truthy(Get(ls, CatalogKey))
    THEN Settled(TRUE, Get(ls, CatalogKey), 304, ls)
    ELSE Settled(FALSE, NULL, resp.status,
                 IF resp.status = 401
                 THEN [ls EXCEPT !.other = @ \ {"authToken", "user"}]
                 ELSE ls)

ResponseInterceptorEvictsUnvalidated(ls, req, resp, t) ==
    IF resp.status \in 200..299
    THEN Settled(TRUE, resp.data, resp.status,
                 IF req.url = "/admin/art" /\ req.method = "get"
                 THEN IF resp.etag # NULL /\ Truthy(resp.data)
                      THEN Set(ls, CatalogKey, resp.data, resp.etag, t)
                      ELSE Remove(ls, CatalogKey)
                 ELSE ls)
    ELSE IF resp.status = 304 /\ req.url = "/admin/art"
            /\ Truthy(Get(ls, CatalogKey))
    THEN Settled(TRUE, Get(ls, CatalogKey), 304, ls)
    ELSE Settled(FALSE, NULL, resp.status,
                 IF resp.status = 401
                 THEN [ls EXCEPT !.other = @ \ {"authToken", "user"}]
                 ELSE ls)

\* apiClient.interceptors.response, success and error handler
ResponseInterceptor(ls, req, resp, t) ==
    IF resp.status \in 200..299
    THEN Settled(TRUE, resp.data, resp.status,
                 IF req.url = "/admin/art" /\ req.method = "get"
                    /\ resp.etag # NULL /\ Truthy(resp.data)
                 THEN Set(ls, CatalogKey, resp.data, resp.etag, t)
                 ELSE ls)
    ELSE IF resp.status = 304 /\ req.url = "/admin/art"
            /\ Truthy(Get(ls, CatalogKey))
    THEN Settled(TRUE, Get(ls, CatalogKey), 304, ls)
    ELSE Settled(FALSE, NULL, resp.status,
                 IF resp.status = 401
                 THEN [ls EXCEPT !.other = @ \ {"authToken", "user"}]
                 ELSE ls)

(***************************************************************************)
(* artworkApi                                                              *)
(***************************************************************************)
GetAllNoDegrade(ls, req, resp, t) == ResponseInterceptor(ls, req, resp, t)

GetAllSwallowsError(ls, req, resp, t) ==
    LET out == ResponseInterceptor(ls, req, resp, t)
        cachedData == Get(out.ls, CatalogKey)
    IN  IF out.ok THEN out
        ELSE Settled(TRUE, cachedData, out.status, out.ls)

\* artworkApi.getAll from the arrival of the response on
GetAll(ls, req, resp, t) ==
    LET out == ResponseInterceptor(ls, req, resp, t)
        cachedData == Get(out.ls, CatalogKey)
    IN  IF out.ok THEN out
        ELSE IF Truthy(cachedData)
        THEN Settled(TRUE, cachedData, out.status, out.ls)
        ELSE out

CreateEvictsOnFailure(ls, req, resp, t) ==
    LET out == ResponseInterceptor(ls, req, resp, t)
    IN  [out EXCEPT !.ls = Remove(out.ls, CatalogKey)]

\* artworkApi.create from the arrival of the response on
Create(ls, req, resp, t) ==
    LET out == ResponseInterceptor(ls, req, resp, t)
    IN  IF out.ok THEN [out EXCEPT !.ls = Remove(out.ls, CatalogKey)] ELSE out

\* artworkApi.update from the arrival of the response on
Update(ls, req, resp, t) == ResponseInterceptor(ls, req, resp, t)

\* artworkApi.delete from the arrival of the response on
Delete(ls, req, resp, t) ==
    LET out == ResponseInterceptor(ls, req, resp, t)
    IN  IF out.ok THEN [out EXCEPT !.ls = Remove(out.ls, CatalogKey)] ELSE out

(***************************************************************************)
(* The views                                                               *)
(***************************************************************************)
\* the array found at the given path of a payload (wrapped), NULL when
\* the payload has no array there
ArrayAt(d, path) ==
    IF d = NULL THEN NULL
    ELSE IF d.shape = "object"
    THEN IF path \in Paths THEN d.fields[path] ELSE NULL
    ELSE IF d.shape = path THEN [array |-> d.items] ELSE NULL

\* String(art.id) of an item's id, a number
String(n) == ToString(n)

\* the route parameter of /artwork/:id for artwork n, a string
Param(n) == ToString(n)

\* art.id === id: a number is never strictly equal to a route parameter
FindStrict(list, id) == NULL

\* artworksList.find(art => String(art.id) === String(id)); NULL: undefined
Find(list, id) ==
    LET hits == {i \in 1..Len(list) : String(list[i].id) = Param(id)}
    IN  IF hits = {} THEN NULL
        ELSE list[CHOOSE i \in hits : \A j \in hits : i <= j]

\* the hardcoded print of Prints.tsx
PrintsDefault == <<Item(101, 0)>>

\* the static artworks of data/artworks.ts
StaticArtworks == [i \in 1..6 |-> Item(i, 0)]

\* what a call leaves behind: ok is FALSE when an error reached the caller;
\* data is a payload returned by artworkApi, list and item are view state,
\* source is the view's data source tag, status the error's response
\* status, ver the catalog version the shown data was produced at (0: none)
Result(ok, data, list, item, source, status, ver) ==
    [ok |-> ok, data |-> data, list |-> list, item |-> item,
     source |-> source, status |-> status, ver |-> ver]

NormalizePrintsItemsFirst(cachedData) ==
    IF ArrayAt(cachedData, "array") # NULL THEN ArrayAt(cachedData, "array").array
    ELSE IF ArrayAt(cachedData, "items") # NULL THEN ArrayAt(cachedData, "items").array
    ELSE IF ArrayAt(cachedData, "data.items") # NULL
    THEN ArrayAt(cachedData, "data.items").array
    ELSE IF ArrayAt(cachedData, "artworks") # NULL
    THEN ArrayAt(cachedData, "artworks").array
    ELSE <<>>

\* Prints.loadPrints: the extraction rules
NormalizePrints(cachedData) ==
    IF ArrayAt(cachedData, "array") # NULL THEN ArrayAt(cachedData, "array").array
    ELSE IF ArrayAt(cachedData, "data.items") # NULL
    THEN ArrayAt(cachedData, "data.items").array
    ELSE IF ArrayAt(cachedData, "items") # NULL THEN ArrayAt(cachedData, "items").array
    ELSE IF ArrayAt(cachedData, "artworks") # NULL
    THEN ArrayAt(cachedData, "artworks").array
    ELSE <<>>

\* Prints.loadPrints from "if (cachedData)" on
PrintsShow(cachedData, source) ==
    IF Truthy(cachedData)
    THEN Result(TRUE, NULL, NormalizePrints(cachedData), NULL, source, 0,
                cachedData.ver)
    ELSE Result(TRUE, NULL, PrintsDefault, NULL, "fallback", 0, 0)

\* ArtworkDetail.loadArtwork: the extraction rules; NULL when none applies
NormalizeDetail(cachedData) ==
    IF ArrayAt(cachedData, "array") # NULL THEN ArrayAt(cachedData, "array")
    ELSE IF ArrayAt(cachedData, "data.items") # NULL
    THEN ArrayAt(cachedData, "data.items")
    ELSE IF ArrayAt(cachedData, "items") # NULL THEN ArrayAt(cachedData, "items")
    ELSE IF ArrayAt(cachedData, "artworks") # NULL
    THEN ArrayAt(cachedData, "artworks")
    ELSE IF ArrayAt(cachedData, "data") # NULL THEN ArrayAt(cachedData, "data")
    ELSE IF ArrayAt(cachedData, "results") # NULL
    THEN ArrayAt(cachedData, "results")
    ELSE NULL

\* ArtworkDetail.loadArtwork from "if (cachedData)" on
DetailShow(cachedData, id) ==
    LET artworksList == IF Truthy(cachedData) THEN NormalizeDetail(cachedData)
                        ELSE NULL
        foundArtwork == IF artworksList # NULL THEN Find(artworksList.array, id)
                        ELSE NULL
        staticArtwork == Find(StaticArtworks, id)
    IN  IF foundArtwork # NULL
        THEN Result(TRUE, NULL, <<>>, foundArtwork, "cache", 0, cachedData.ver)
        ELSE Result(TRUE, NULL, <<>>, staticArtwork, "static", 0, 0)

\* EditArtwork.loadArtwork: data?.items || items || []
ItemsOfEdit(d) ==
    IF ArrayAt(d, "data.items") # NULL THEN ArrayAt(d, "data.items").array
    ELSE IF ArrayAt(d, "items") # NULL THEN ArrayAt(d, "items").array
    ELSE <<>>

EditIgnoresCache(cachedData, id) == NULL

\* EditArtwork.loadArtwork: the artwork found in the cached data
EditFromCache(cachedData, id) ==
    IF Truthy(cachedData) THEN Find(ItemsOfEdit(cachedData), id) ELSE NULL

\* EditArtwork.loadArtwork after artworkApi.getAll settled as r
EditShow(r, id) ==
    IF r.ok /\ r.data # NULL
    THEN Result(TRUE, NULL, <<>>, Find(ItemsOfEdit(r.data), id), "api", 0,
                IF Find(ItemsOfEdit(r.data), id) # NULL THEN r.data.ver ELSE 0)
    ELSE Result(TRUE, NULL, <<>>, NULL, "none", r.status, 0)

\* ManageArtworks.handleDelete: the list refreshed after a delete
ItemsOfRefresh(d) ==
    IF ArrayAt(d, "data.items") # NULL THEN ArrayAt(d, "data.items")
    ELSE IF ArrayAt(d, "items") # NULL THEN ArrayAt(d, "items")
    ELSE NULL

(***************************************************************************)
(* Calls                                                                   *)
(***************************************************************************)
\* operations that read the catalog and operations that change it
Loaders == {"Prints", "ArtworkDetail", "EditArtwork"}
Readers == Loaders \cup {"getAll"}
Mutations == {"create", "update", "delete", "handleSubmit", "handleDelete"}

\* a call slot: op is the running operation; pc is "idle", "sent" (request
\* on its way) or "replied" (response on its way); hit tells whether the
\* loader found cached data when it started; sent counts the requests the
\* call issued; seen is the newest catalog version a mutation had
\* acknowledged when the loader started
Call(op, pc, id, req, resp, hit, sent, seen) ==
    [op |-> op, pc |-> pc, id |-> id, req |-> req, resp |-> resp,
     hit |-> hit, sent |-> sent, seen |-> seen]

IdleCall == Call("idle", "idle", 0, NULL, NULL, FALSE, 0, 0)

\* the call that awaits apiClient.<method>(url)
Await(op, id, method, url, hit) ==
    Call(op, "sent", id, RequestInterceptor(localStorage, method, url), NULL,
         hit, 1, IF op \in Loaders THEN ackVersion ELSE 0)

\* what the artworkApi method returned (ok, data) or threw (status)
Outcome(r) == [ok |-> r.ok, data |-> r.data, status |-> r.status]

\* the record of the call whose last step was just taken (last is NULL
\* after any other step): its slot, the call, what its artworkApi method
\* settled as
\* (api, NULL when none ran), what the caller is left with (res), and
\* localStorage before and the clock at that step
Ended(c, call, api, res) ==
    [slot |-> c, op |-> call.op, id |-> call.id, req |-> call.req,
     resp |-> call.resp,
     hit |-> call.hit, sent |-> call.sent, seen |-> call.seen,
     api |-> api, res |-> res, before |-> localStorage, at |-> now]

Max(a, b) == IF a >= b THEN a ELSE b

\* slot c takes the next call: slots are interchangeable, the lowest idle
\* one is used
Free(c) ==
    /\ calls[c].pc = "idle"
    /\ \A d \in 1..(c - 1) : calls[d].pc # "idle"

\* the browser and the backend before the first call
Start ==
    /\ localStorage = EmptyStorage
    /\ now = 0
    /\ srvCatalog = InitialCatalog
    /\ srvVersion = 1
    /\ calls = [c \in Slots |-> IdleCall]
    /\ ackVersion = 0
    /\ returned = NULL
    /\ last = NULL

\* the backend wraps the catalog as the views' comments expect: data.items
Init ==
    /\ Start
    /\ srvShape = "data.items"

\* Date.now() advances
Tick ==
    /\ now < MaxClock
    /\ now' = now + 1
    /\ UNCHANGED <<localStorage, srvCatalog, srvVersion, srvShape, calls,
                   ackVersion, returned>>
    /\ last' = NULL

\* Prints mounts: loadPrints up to the await, to the end on a cache hit
LoadPrints(c) ==
    /\ Free(c)
    /\ LET cachedData == Get(localStorage, CatalogKey)
       IN  IF ~Truthy(cachedData)
           THEN /\ calls' = [calls EXCEPT ![c] =
                                 Await("Prints", 0, "get", "/admin/art", FALSE)]
                /\ last' = NULL
           ELSE /\ last' = Ended(c, Call("Prints", "idle", 0, NULL, NULL, TRUE, 0,
                                      ackVersion),
                                 NULL, PrintsShow(cachedData, "cache"))
                /\ UNCHANGED calls
    /\ UNCHANGED <<localStorage, now, srvCatalog, srvVersion, srvShape, ackVersion, returned>>

\* ArtworkDetail mounts for artwork id: loadArtwork up to the await, to the
\* end on a cache hit
LoadArtworkDetail(c, id) ==
    /\ Free(c)
    /\ LET cachedData == Get(localStorage, CatalogKey)
       IN  IF ~Truthy(cachedData)
           THEN /\ calls' = [calls EXCEPT ![c] =
                                 Await("ArtworkDetail", id, "get", "/admin/art", FALSE)]
                /\ last' = NULL
           ELSE /\ last' = Ended(c, Call("ArtworkDetail", "idle", id, NULL, NULL, TRUE,
                                      0, ackVersion),
                                 NULL, DetailShow(cachedData, id))
                /\ UNCHANGED calls
    /\ UNCHANGED <<localStorage, now, srvCatalog, srvVersion, srvShape, ackVersion, returned>>

\* EditArtwork mounts for artwork id: loadArtwork up to the await, to the
\* end when the artwork is in the cached data
LoadEditArtwork(c, id) ==
    /\ Free(c)
    /\ LET cachedData == Get(localStorage, CatalogKey)
           artworkData == EditFromCache(cachedData, id)
       IN  IF artworkData = NULL
           THEN /\ calls' = [calls EXCEPT ![c] =
                                 Await("EditArtwork", id, "get", "/admin/art",
                                       Truthy(cachedData))]
                /\ last' = NULL
           ELSE /\ last' = Ended(c, Call("EditArtwork", "idle", id, NULL, NULL, TRUE,
                                      0, ackVersion),
                                 NULL,
                                 Result(TRUE, NULL, <<>>, artworkData, "cache", 0,
                                        cachedData.ver))
                /\ UNCHANGED calls
    /\ UNCHANGED <<localStorage, now, srvCatalog, srvVersion, srvShape, ackVersion, returned>>

\* a caller awaits artworkApi.getAll (ArtworkGrid, ManageArtworks,
\* ETagCachingExample, the useApi hook)
CallGetAll(c) ==
    /\ Free(c)
    /\ calls' = [calls EXCEPT ![c] = Await("getAll", 0, "get", "/admin/art", FALSE)]
    /\ UNCHANGED <<localStorage, now, srvCatalog, srvVersion, srvShape,
                   ackVersion, returned>>
    /\ last' = NULL

\* Force Refresh of the guide: cacheService.remove('admin_art') and then
\* artworkApi.getAll(), up to the await
ForceRefresh(c) ==
    /\ Free(c)
    /\ localStorage' = Remove(localStorage, CatalogKey)
    /\ calls' = [calls EXCEPT ![c] =
           Call("forceRefresh", "sent", 0,
                RequestInterceptor(Remove(localStorage, CatalogKey), "get",
                                   "/admin/art"),
                NULL, FALSE, 1, 0)]
    /\ returned' = NULL
    /\ last' = NULL
    /\ UNCHANGED <<now, srvCatalog, srvVersion, srvShape, ackVersion>>

\* the request of a mutation
MutationMethod(op) ==
    CASE op = "create" -> "post"
      [] op \in {"update", "handleSubmit"} -> "put"
      [] op \in {"delete", "handleDelete"} -> "delete"

MutationUrl(op) ==
    CASE op = "create" -> "/admin/art"
      [] op \in {"update", "handleSubmit"} -> "/api/artworks/:id"
      [] op \in {"delete", "handleDelete"} -> "/admin/art/:id"

\* what the backend does for a mutation
MutationKind(op) ==
    CASE op = "create" -> "create"
      [] op \in {"update", "handleSubmit"} -> "update"
      [] op \in {"delete", "handleDelete"} -> "delete"

\* a caller awaits artworkApi.create / update / delete (the useApi hook),
\* EditArtwork submits its form, or ManageArtworks confirms a deletion
CallMutation(c, op, id) ==
    /\ Free(c)
    /\ op = "create" <=> id = 0
    /\ calls' = [calls EXCEPT ![c] =
           Await(op, id, MutationMethod(op), MutationUrl(op), FALSE)]
    /\ UNCHANGED <<localStorage, now, srvCatalog, srvVersion, srvShape,
                   ackVersion, returned>>
    /\ last' = NULL

\* the body the backend sends for its current catalog
Body == Envelope(srvShape, srvCatalog, srvVersion)

\* the backend answers GET /admin/art: 304 exactly when the request carries
\* the validator of the current version, 200 with body and ETag otherwise
ServerGet(c) ==
    /\ calls[c].pc = "sent"
    /\ calls[c].req.method = "get"
    /\ calls' = [calls EXCEPT ![c].pc = "replied",
                              ![c].resp =
           IF calls[c].req.inm = ETagOf(srvVersion)
           THEN Response(304, NULL, ETagOf(srvVersion), srvVersion)
           ELSE Response(200, Body, ETagOf(srvVersion), srvVersion)]
    /\ UNCHANGED <<localStorage, now, srvCatalog, srvVersion, srvShape,
                   ackVersion, returned>>
    /\ last' = NULL

\* the backend answers GET /admin/art with 200 and a body but no ETag header
ServerGetNoETag(c) ==
    /\ calls[c].pc = "sent"
    /\ calls[c].req.method = "get"
    /\ calls' = [calls EXCEPT ![c].pc = "replied",
                              ![c].resp = Response(200, Body, NULL, srvVersion)]
    /\ UNCHANGED <<localStorage, now, srvCatalog, srvVersion, srvShape,
                   ackVersion, returned>>
    /\ last' = NULL

\* the backend answers GET /admin/art with 200 and an ETag header but a
\* body that is falsy for the client (null, the empty string)
ServerGetNoBody(c) ==
    /\ calls[c].pc = "sent"
    /\ calls[c].req.method = "get"
    /\ calls' = [calls EXCEPT ![c].pc = "replied",
                              ![c].resp =
           Response(200, NULL, ETagOf(srvVersion), srvVersion)]
    /\ UNCHANGED <<localStorage, now, srvCatalog, srvVersion, srvShape,
                   ackVersion, returned>>
    /\ last' = NULL

\* a request fails: the backend answers with an error status and changes
\* nothing, or no response arrives (status 0)
ServerFail(c, status) ==
    /\ calls[c].pc = "sent"
    /\ calls' = [calls EXCEPT ![c].pc = "replied",
                              ![c].resp = Response(status, NULL, NULL, srvVersion)]
    /\ UNCHANGED <<localStorage, now, srvCatalog, srvVersion, srvShape,
                   ackVersion, returned>>
    /\ last' = NULL

\* the backend applies a mutation and answers 2xx, or the answer is lost
ServerMutate(c, status) ==
    /\ calls[c].pc = "sent"
    /\ calls[c].req.method # "get"
    /\ srvVersion < MaxVersion
    /\ calls[c].op = "create" \/ Contains(srvCatalog, calls[c].id)
    /\ srvVersion' = srvVersion + 1
    /\ srvCatalog' = Apply(MutationKind(calls[c].op), srvCatalog, calls[c].id,
                           srvVersion + 1)
    /\ calls' = [calls EXCEPT ![c].pc = "replied",
                              ![c].resp = Response(status, NULL, NULL, srvVersion + 1)]
    /\ last' = NULL
    /\ UNCHANGED <<localStorage, now, srvShape, ackVersion, returned>>

\* how artworkApi.getAll came to its result
Via(r) ==
    IF ~r.ok THEN "error"
    ELSE IF r.status \in 200..299 THEN "network"
    ELSE IF r.status = 304 THEN "revalidated"
    ELSE "degraded"

\* what the caller of artworkApi.getAll is left with once it settled as r
ReadResult(op, id, r) ==
    CASE op = "Prints" -> PrintsShow(IF r.ok THEN r.data ELSE NULL, "api")
      [] op = "ArtworkDetail" -> DetailShow(IF r.ok THEN r.data ELSE NULL, id)
      [] op = "EditArtwork" -> EditShow(r, id)
      [] op \in {"getAll", "forceRefresh"} ->
           Result(r.ok, r.data, <<>>, NULL, Via(r), r.status,
                  IF r.ok /\ r.data # NULL THEN r.data.ver ELSE 0)
      [] op = "handleDelete" ->
           IF r.ok /\ r.data # NULL
           THEN Result(TRUE, NULL,
                       IF ItemsOfRefresh(r.data) # NULL
                       THEN ItemsOfRefresh(r.data).array ELSE <<>>,
                       NULL,
                       IF ItemsOfRefresh(r.data) # NULL THEN "api" ELSE "kept",
                       0, r.data.ver)
           ELSE Result(FALSE, NULL, <<>>, NULL, "kept", r.status, 0)

\* the response to GET /admin/art arrives: response interceptor, the rest
\* of artworkApi.getAll and the rest of the caller run
ReceiveRead(c) ==
    /\ calls[c].pc = "replied"
    /\ calls[c].req.method = "get"
    /\ LET r == GetAll(localStorage, calls[c].req, calls[c].resp, now)
       IN  /\ localStorage' = r.ls
           /\ last' = Ended(c, calls[c], Outcome(r),
                            ReadResult(calls[c].op, calls[c].id, r))
           /\ returned' = IF r.ls # localStorage THEN r.data ELSE returned
    /\ calls' = [calls EXCEPT ![c] = IdleCall]
    /\ UNCHANGED <<now, srvCatalog, srvVersion, srvShape, ackVersion>>

\* artworkApi.create / update / delete from the arrival of the response on
Mutate(op, ls, req, resp, t) ==
    CASE MutationKind(op) = "create" -> Create(ls, req, resp, t)
      [] MutationKind(op) = "update" -> Update(ls, req, resp, t)
      [] MutationKind(op) = "delete" -> Delete(ls, req, resp, t)

\* EditArtwork.handleSubmit after artworkApi.update settled as out
HandleSubmit(out) == IF out.ok THEN Remove(out.ls, CatalogKey) ELSE out.ls

\* the response to a mutation arrives: response interceptor, the rest of
\* the artworkApi method and the rest of the caller run; a successful
\* ManageArtworks.handleDelete goes on to await artworkApi.getAll
ReceiveMutation(c) ==
    /\ calls[c].pc = "replied"
    /\ calls[c].req.method # "get"
    /\ LET op == calls[c].op
           out == Mutate(op, localStorage, calls[c].req, calls[c].resp, now)
           ls == IF op = "handleSubmit" THEN HandleSubmit(out) ELSE out.ls
       IN  /\ localStorage' = ls
           /\ ackVersion' = IF out.ok THEN Max(ackVersion, calls[c].resp.ver)
                            ELSE ackVersion
           /\ last' = Ended(c, calls[c], Outcome(out),
                            Result(out.ok, out.data, <<>>, NULL, "none",
                                   out.status, 0))
           /\ calls' = [calls EXCEPT ![c] =
                  IF op = "handleDelete" /\ out.ok
                  THEN [@ EXCEPT !.pc = "sent",
                                 !.req = RequestInterceptor(ls, "get", "/admin/art"),
                                 !.resp = NULL,
                                 !.sent = @ + 1]
                  ELSE IdleCall]
           /\ returned' = IF Has(ls, CatalogKey) THEN returned ELSE NULL
    /\ UNCHANGED <<now, srvCatalog, srvVersion, srvShape>>

\* concurrent calls of the API layer and of Prints
Next ==
    \/ Tick
    \/ \E c \in Slots : LoadPrints(c)
    \/ \E c \in Slots : CallGetAll(c)
    \/ \E c \in Slots, op \in Mutations, id \in TargetIds \cup {0} : CallMutation(c, op, id)
    \/ \E c \in Slots : ServerGet(c)
    \/ \E c \in Slots : ServerGetNoETag(c)
    \/ \E c \in Slots : ServerGetNoBody(c)
    \/ \E c \in Slots, status \in ErrorStatuses \cup {0} : ServerFail(c, status)
    \/ \E c \in Slots, status \in {200, 0} : ServerMutate(c, status)
    \/ \E c \in Slots : ReceiveRead(c)
    \/ \E c \in Slots : ReceiveMutation(c)

Spec == Init /\ [][Next]_vars

\* the backend wraps the catalog in any of the envelopes
InitViews ==
    /\ Start
    /\ srvShape \in Shapes

\* one call at a time, of any view, over every envelope
NextViews ==
    \/ Tick
    \/ LoadPrints(1)
    \/ \E id \in ViewIds : LoadArtworkDetail(1, id)
    \/ \E id \in ViewIds : LoadEditArtwork(1, id)
    \/ CallGetAll(1)
    \/ ForceRefresh(1)
    \/ \E op \in Mutations, id \in TargetIds \cup {0} : CallMutation(1, op, id)
    \/ ServerGet(1)
    \/ ServerGetNoETag(1)
    \/ ServerGetNoBody(1)
    \/ \E status \in ErrorStatuses \cup {0} : ServerFail(1, status)
    \/ \E status \in {200, 0} : ServerMutate(1, status)
    \/ ReceiveRead(1)
    \/ ReceiveMutation(1)

SpecViews == InitViews /\ [][NextViews]_vars

(***************************************************************************)
(* cacheService on its own: any caller, any key, any payload               *)
(***************************************************************************)
\* payloads handed to cacheService.set: null, an empty list, a list
Payloads == {NULL, Envelope("array", <<>>, 0), Envelope("items", <<Item(1, 1)>>, 1)}

\* validators handed to cacheService.set
Validators == {ETagOf(1), ETagOf(2)}

\* the record of the cacheService call just made
Called(op, key, data, etag) ==
    [op |-> op, key |-> key, data |-> data, etag |-> etag,
     before |-> localStorage, at |-> now]

\* cacheService.set(key, data, etag)
StoreSet(key, data, etag) ==
    /\ localStorage' = Set(localStorage, key, data, etag, now)
    /\ last' = Called("set", key, data, etag)
    /\ returned' = NULL
    /\ UNCHANGED <<now, srvCatalog, srvVersion, srvShape, calls, ackVersion>>

\* cacheService.remove(key)
StoreRemove(key) ==
    /\ localStorage' = Remove(localStorage, key)
    /\ last' = Called("remove", key, NULL, NULL)
    /\ returned' = NULL
    /\ UNCHANGED <<now, srvCatalog, srvVersion, srvShape, calls, ackVersion>>

\* cacheService.clear()
StoreClear ==
    /\ localStorage' = Clear(localStorage)
    /\ last' = Called("clear", CatalogKey, NULL, NULL)
    /\ returned' = NULL
    /\ UNCHANGED <<now, srvCatalog, srvVersion, srvShape, calls, ackVersion>>

NextStore ==
    \/ Tick
    \/ \E key \in Keys, data \in Payloads, etag \in Validators : StoreSet(key, data, etag)
    \/ \E key \in Keys : StoreRemove(key)
    \/ StoreClear

SpecStore == Init /\ [][NextStore]_vars

(***************************************************************************)
(* The views' normalization on its own: any payload in the cache           *)
(***************************************************************************)
\* item lists a payload can carry
ItemLists == {<<>>, <<Item(1, 1)>>, <<Item(2, 1), Item(1, 2)>>}

\* the fields of a payload object: data is either an object that may hold
\* items or an array, never both
Fields ==
    {f \in [Paths -> {NULL} \cup {[array |-> L] : L \in ItemLists}] :
        f["data.items"] = NULL \/ f["data"] = NULL}

\* the payloads a backend may answer GET /admin/art with
CatalogPayloads ==
    {Envelope(shape, L, 1) : shape \in Shapes, L \in ItemLists}
        \cup {Object(f, 1) : f \in Fields}

\* the cache holds some payload
InitNormalize ==
    /\ \E d \in CatalogPayloads :
           /\ localStorage = Set(EmptyStorage, CatalogKey, d, ETagOf(1), 0)
           /\ returned = d
    /\ now = 0
    /\ srvCatalog = InitialCatalog
    /\ srvVersion = 1
    /\ srvShape = "data.items"
    /\ calls = [c \in Slots |-> IdleCall]
    /\ ackVersion = 0
    /\ last = NULL

\* the list a view extracts from the cached payload
NormalizeIn(view) ==
    /\ LET d == Get(localStorage, CatalogKey)
       IN  last' = [op |-> "normalize", view |-> view, payload |-> d,
                    list |-> CASE view = "Prints" -> NormalizePrints(d)
                               [] view = "ArtworkDetail" ->
                                    IF NormalizeDetail(d) # NULL
                                    THEN NormalizeDetail(d).array ELSE <<>>
                               [] view = "EditArtwork" -> ItemsOfEdit(d)]
    /\ UNCHANGED <<localStorage, now, srvCatalog, srvVersion, srvShape, calls,
                   ackVersion, returned>>

NextNormalize ==
    \/ \E view \in Loaders : NormalizeIn(view)
    \/ LoadPrints(1)
    \/ \E id \in ViewIds : LoadArtworkDetail(1, id)

SpecNormalize == InitNormalize /\ [][NextNormalize]_vars

(***************************************************************************)
(* cacheService on its own, over a storage that fails                      *)
(***************************************************************************)
\* the localStorage calls of cacheService.set, the operation with most
MaxFault == 3

\* the maxAge values handed to cacheService.isExpired
MaxAges == {0, 1}

\* the record of the cacheService call just made over the failing storage
Tried(op, key, data, etag, fault, did) ==
    [op |-> op, key |-> key, data |-> data, etag |-> etag, fault |-> fault,
     value |-> did.value, raised |-> did.raised,
     before |-> localStorage, at |-> now]

\* a cacheService call: did is what it does in this state
Try(op, key, data, etag, fault, did) ==
    /\ localStorage' = did.ls
    /\ last' = Tried(op, key, data, etag, fault, did)
    /\ returned' = NULL
    /\ UNCHANGED <<now, srvCatalog, srvVersion, srvShape, calls, ackVersion>>

TrySet(key, data, etag, fault) ==
    Try("set", key, data, etag, fault,
        SetWhen(localStorage, key, data, etag, now, fault))

TryGet(key, fault) ==
    Try("get", key, NULL, NULL, fault, GetWhen(localStorage, key, fault))

TryGetETag(key, fault) ==
    Try("getETag", key, NULL, NULL, fault, GetETagWhen(localStorage, key, fault))

TryGetIfNoneMatch(fault) ==
    Try("getIfNoneMatch", CatalogKey, NULL, NULL, fault,
        GetIfNoneMatchWhen(localStorage, fault))

TryHas(key, fault) ==
    Try("has", key, NULL, NULL, fault, HasWhen(localStorage, key, fault))

TryRemove(key, fault) ==
    Try("remove", key, NULL, NULL, fault, RemoveWhen(localStorage, key, fault))

TryClear(fault) ==
    Try("clear", CatalogKey, NULL, NULL, fault, ClearWhen(localStorage, fault))

TryGetCacheAge(key, fault) ==
    Try("getCacheAge", key, NULL, NULL, fault,
        GetCacheAgeWhen(localStorage, key, now, fault))

TryIsExpired(key, maxAge, fault) ==
    Try("isExpired", key, NULL, NULL, fault,
        IsExpiredWhen(localStorage, key, maxAge, now, fault))

\* something else overwrites the entry record of key
Corrupt(key, record) ==
    /\ localStorage' = [localStorage EXCEPT !.api_cache_[key] = record]
    /\ last' = NULL
    /\ returned' = NULL
    /\ UNCHANGED <<now, srvCatalog, srvVersion, srvShape, calls, ackVersion>>

NextFaults ==
    \/ Tick
    \/ \E key \in Keys, etag \in Validators, fault \in 0..MaxFault :
           TrySet(key, Envelope("items", <<Item(1, 1)>>, 1), etag, fault)
    \/ \E key \in Keys, fault \in 0..1 : TryGet(key, fault)
    \/ \E key \in Keys, fault \in 0..1 : TryGetETag(key, fault)
    \/ \E fault \in 0..1 : TryGetIfNoneMatch(fault)
    \/ \E key \in Keys, fault \in 0..1 : TryHas(key, fault)
    \/ \E key \in Keys, fault \in 0..2 : TryRemove(key, fault)
    \/ \E fault \in 0..2 : TryClear(fault)
    \/ \E key \in Keys, fault \in 0..1 : TryGetCacheAge(key, fault)
    \/ \E key \in Keys, maxAge \in MaxAges, fault \in 0..1 :
           TryIsExpired(key, maxAge, fault)
    \/ \E key \in Keys, record \in {Garbled, EmptyObject} : Corrupt(key, record)

SpecFaults == Init /\ [][NextFaults]_vars

(***************************************************************************)
(* apiClient on its own: any request of the API layer, any response        *)
(***************************************************************************)
\* the requests the API layer makes: the catalog fetch, the catalog
\* mutations, and others (artwork by id, orders, sign-in)
Requests ==
    {<<"get", "/admin/art">>, <<"post", "/admin/art">>,
     <<"put", "/api/artworks/:id">>, <<"delete", "/admin/art/:id">>,
     <<"get", "/api/artworks/:id">>, <<"get", "/admin/orders">>,
     <<"post", "/order">>, <<"post", "/admin/login">>}

\* the responses a backend may give: any status, with or without a body,
\* with or without an ETag header
Answers ==
    {Response(status, data, etag, 2) :
        status \in {200, 201, 304, 500, 0},
        data \in {NULL, Envelope("data.items", InitialCatalog, 2)},
        etag \in {NULL, ETagOf(2)}}

\* localStorage after a first fetch of the catalog
Fetched ==
    Set(EmptyStorage, CatalogKey, Envelope("data.items", InitialCatalog, 1),
        ETagOf(1), 0)

\* the store is empty, holds the catalog, or held it until an eviction
InitIntercept ==
    /\ localStorage \in {EmptyStorage, Fetched, Remove(Fetched, CatalogKey)}
    /\ now = 0
    /\ srvCatalog = InitialCatalog
    /\ srvVersion = 1
    /\ srvShape = "data.items"
    /\ calls = [c \in Slots |-> IdleCall]
    /\ ackVersion = 0
    /\ returned = NULL
    /\ last = NULL

\* the record of the request just made and answered
Answered(op, req, resp, out) ==
    [op |-> op, req |-> req, resp |-> resp, api |-> Outcome(out),
     before |-> localStorage, at |-> now]

\* apiClient.<method>(url), from the request interceptor to the settling
\* of the promise by the response interceptor
ApiClientCall(method, url, resp) ==
    /\ LET req == RequestInterceptor(localStorage, method, url)
           out == ResponseInterceptor(localStorage, req, resp, now)
       IN  /\ localStorage' = out.ls
           /\ last' = Answered("apiClient", req, resp, out)
    /\ returned' = NULL
    /\ UNCHANGED <<now, srvCatalog, srvVersion, srvShape, calls, ackVersion>>

\* artworkApi.create / update / delete, from the request interceptor to
\* the return or throw
ArtworkApiMutation(op, resp) ==
    /\ LET req == RequestInterceptor(localStorage, MutationMethod(op),
                                     MutationUrl(op))
           out == Mutate(op, localStorage, req, resp, now)
       IN  /\ localStorage' = out.ls
           /\ last' = Answered(op, req, resp, out)
    /\ returned' = NULL
    /\ UNCHANGED <<now, srvCatalog, srvVersion, srvShape, calls, ackVersion>>

NextIntercept ==
    \/ Tick
    \/ \E r \in Requests, resp \in Answers : ApiClientCall(r[1], r[2], resp)
    \/ \E op \in {"create", "update", "delete"}, resp \in Answers :
           ArtworkApiMutation(op, resp)

SpecIntercept == InitIntercept /\ [][NextIntercept]_vars

(***************************************************************************)
(* Properties                                                              *)
(***************************************************************************)
\* the step just taken ended an artworkApi.getAll
ReadEnded ==
    /\ last # NULL
    /\ last.op \in Readers \cup {"handleDelete"}
    /\ last.api # NULL
    /\ last.req.method = "get"

\* the step just taken ended an artworkApi.create / update / delete and
\* the part of its caller that follows it
MutationEnded ==
    /\ last # NULL
    /\ last.op \in Mutations
    /\ last.req.method # "get"

\* the step just taken ended a view loader
LoaderEnded == last # NULL /\ last.op \in Loaders

\* no call awaits the network
Quiet == \A c \in Slots : calls[c].pc = "idle"

\* the cache records of key: entry, validator copy, and the global record
CacheRecords(ls, key) == <<ls.api_cache_[key], ls.etag_[key], ls.inm>>

\* C1: once a mutation has succeeded, no resolve started later shows a
\* catalog snapshot the backend produced before that mutation
C1_ReadYourWrites ==
    (LoaderEnded /\ last.res.ver > 0) => last.res.ver >= last.seen

\* C2: right after a successful create, update or delete, whoever called
\* it, the cache holds no entry for the catalog key
C2_MutationEvicts ==
    (MutationEnded /\ last.resp.status \in 200..299) =>
        Get(localStorage, CatalogKey) = NULL

\* a Prints load starts in the step
PrintsStarts ==
    \/ last' # NULL /\ last'.op = "Prints" /\ last'.api = NULL
    \/ \E c \in Slots : calls[c].pc = "idle" /\ calls'[c].op = "Prints"

\* C3, first resolve: a Prints load that missed the cache issued one GET,
\* and on 200 with a validator the store holds that body and validator
C3_FirstResolve ==
    (LoaderEnded /\ last.op = "Prints" /\ last.api # NULL
       /\ last.resp.status = 200 /\ last.resp.etag # NULL) =>
        /\ last.sent = 1
        /\ Get(localStorage, CatalogKey) = last.resp.data
        /\ GetETag(localStorage, CatalogKey) = last.resp.etag
        /\ last.res.list = NormalizePrints(last.resp.data)

\* C3, second resolve: a Prints load right after the first, nothing else
\* running, shows the same items without a network request
C3_SecondResolve ==
    (Quiet /\ LoaderEnded /\ last.op = "Prints" /\ last.api # NULL
       /\ last.resp.status = 200 /\ last.resp.etag # NULL /\ PrintsStarts) =>
        /\ last' # NULL
        /\ last'.sent = 0
        /\ last'.res.list = last.res.list

\* C3, third resolve: a Prints load right after a successful mutation,
\* nothing else running, issues a network request
C3_ThirdResolve ==
    (Quiet /\ MutationEnded /\ last.resp.status \in 200..299 /\ PrintsStarts) =>
        \E c \in Slots : calls'[c].op = "Prints" /\ calls'[c].pc = "sent"

\* C3: the scenario resolve, resolve, mutation, resolve goes network,
\* cache, eviction, network
C3_ScenarioOrdering ==
    [][C3_FirstResolve' /\ C3_SecondResolve /\ C3_ThirdResolve]_vars

C6_RemoveThenAbsent ==
    (last # NULL /\ last.op = "remove") =>
        /\ Get(localStorage, last.key) = NULL
        /\ GetETag(localStorage, last.key) = NULL
        /\ ~Has(localStorage, last.key)
        /\ Remove(localStorage, last.key) = localStorage

\* remove acted on a present entry
C6_Witness ==
    /\ last # NULL
    /\ last.op = "remove"
    /\ Has(last.before, last.key)
    /\ GetETag(last.before, last.key) # NULL
    /\ ~Has(localStorage, last.key)

\* C7: a fetch answered 304 while an entry is stored returns the data the
\* fetch that stored the entry returned, and writes nothing: localStorage,
\* with the entry's data, validator and timestamp, is as before
C7_NotModifiedIdempotent ==
    /\ (ReadEnded /\ last.resp.status = 304 /\ Has(last.before, CatalogKey)) =>
           /\ last.api.ok
           /\ last.api.data = returned
           /\ localStorage = last.before
           /\ StoredAt(localStorage, CatalogKey) = StoredAt(last.before, CatalogKey)
    /\ (ReadEnded /\ last.resp.status \in 200..299
          /\ localStorage # last.before) =>
           /\ last.api.ok
           /\ last.api.data = Get(localStorage, CatalogKey)
           /\ returned = last.api.data

\* a fetch was answered 304 later than the entry was stored
C7_Witness ==
    /\ ReadEnded
    /\ last.resp.status = 304
    /\ Has(last.before, CatalogKey)
    /\ StoredAt(last.before, CatalogKey).at < last.at
    /\ last.api.data = returned

C9_DegradeToCache ==
    (ReadEnded /\ last.resp.status \notin (200..299) \cup {304}) =>
        /\ localStorage = last.before
        /\ IF Get(last.before, CatalogKey) # NULL
           THEN last.api.ok /\ last.api.data = Get(last.before, CatalogKey)
           ELSE ~last.api.ok /\ last.api.status = last.resp.status

\* a GET failed while data was cached, and the fetch returned that data
C9_Witness ==
    /\ ReadEnded
    /\ last.resp.status \notin (200..299) \cup {304}
    /\ Get(last.before, CatalogKey) # NULL
    /\ last.api.ok

\* the items a loader can take from an entry's data d: those of the
\* envelopes it recognises
TakenFrom(d, shapes) == IF d.shape \in shapes THEN d.items ELSE <<>>

PrintsShapes == {"array", "data.items", "items", "artworks"}
DetailShapes == PrintsShapes \cup {"data", "results"}
EditShapes == {"data.items", "items"}

\* a loader that found an entry when it started has a request under way
Revalidating(c) == calls[c].op \in Loaders /\ calls[c].hit /\ calls[c].pc # "idle"

FetchFailedWithoutCache ==
    /\ LoaderEnded
    /\ last.api # NULL
    /\ ~last.api.ok
    /\ Get(last.before, CatalogKey) = NULL

\* C11: a loader that finds no entry and whose fetch fails (no response,
\* error status, 304 without cached data) shows its static default, tagged
\* as such: the default list for Prints, the static artwork of that id for
\* the loaders of one artwork
C11_FallbackOrdering ==
    FetchFailedWithoutCache =>
        /\ last.res.ok
        /\ last.res.source \in {"fallback", "static"}
        /\ last.op = "Prints" => last.res.list = PrintsDefault
        /\ last.op # "Prints" => last.res.item = Find(StaticArtworks, last.id)

\* C12: a read that went to the network ends with the view showing cached,
\* fresh or static-default items, never in an error state
C12_NoHardFailure ==
    (last # NULL /\ last.op \in Readers /\ last.api # NULL) =>
        /\ last.res.ok
        /\ last.res.source \in {"cache", "api", "network", "revalidated",
                                "degraded", "fallback", "static"}

\* a view has just normalized a payload
Normalized == last # NULL /\ last.op = "normalize"

\* C13: {data: {items: L}}, {items: L} and the bare list L normalize to L
\* in Prints, ArtworkDetail and EditArtwork
C13_NormalizationAgreement ==
    (Normalized /\ last.payload.shape \in {"data.items", "items", "array"}) =>
        last.list = last.payload.items

\* the extraction rules of each view, in the order they are tried
RulesOf(view) ==
    CASE view = "Prints" -> <<"array", "data.items", "items", "artworks">>
      [] view = "ArtworkDetail" ->
           <<"array", "data.items", "items", "artworks", "data", "results">>
      [] view = "EditArtwork" -> <<"data.items", "items">>

\* the rules of the sequence that yield a list for payload d
Yielding(d, rules) == {i \in 1..Len(rules) : ArrayAt(d, rules[i]) # NULL}

\* the list of the first rule that yields one, the empty list if none does
FirstList(d, rules) ==
    IF Yielding(d, rules) = {} THEN <<>>
    ELSE ArrayAt(d, rules[CHOOSE i \in Yielding(d, rules) :
                              \A j \in Yielding(d, rules) : i <= j]).array

LookupEnded == LoaderEnded /\ last.op \in {"ArtworkDetail", "EditArtwork"}

\* the payload the ended loader worked on: the cached one if it found an
\* entry, else the fetched one, NULL if the fetch failed
PayloadOf(l) ==
    IF l.hit /\ l.sent = 0 THEN Get(l.before, CatalogKey)
    ELSE IF l.api # NULL /\ l.api.ok THEN l.api.data
    ELSE NULL

\* the items of list L whose id is that of artwork id
MatchIn(L, id) == {L[i] : i \in {j \in 1..Len(L) : L[j].id = id}}

\* item is the result of looking artwork id up in L
IsLookup(item, L, id) ==
    IF MatchIn(L, id) = {} THEN item = NULL ELSE item \in MatchIn(L, id)

C16_ProvenanceAccurate ==
    /\ (LoaderEnded /\ ~last.hit /\ last.api # NULL /\ last.api.ok
          /\ last.res.ver > 0) =>
           last.res.source = "api"
    /\ (LoaderEnded /\ last.res.source = "cache") =>
           /\ last.hit
           /\ last.sent = 0

\* a Force Refresh has ended against a server that honours If-None-Match
RefreshEnded ==
    /\ last # NULL
    /\ last.op = "forceRefresh"
    /\ \/ last.resp.status = 304
       \/ last.resp.status = 200 /\ last.resp.etag # NULL

\* C17: after cacheService.remove('admin_art') the next artworkApi.getAll
\* against a server that honours If-None-Match returns the fresh data of
\* a 200 response and stores it again; it is not answered 304
C17_ForceRefresh ==
    RefreshEnded =>
        /\ last.resp.status = 200
        /\ last.api.ok
        /\ last.api.data = last.resp.data
        /\ Get(localStorage, CatalogKey) = last.resp.data

\* no entry record is corrupted
Uncorrupted(ls) == \A k \in Keys : ls.api_cache_[k] \notin {Garbled, EmptyObject}

\* C18: as long as no record is corrupted from outside, a validator is
\* stored for key k exactly when an entry is stored for k
C18_EntryInvariant ==
    Uncorrupted(localStorage) =>
        \A k \in Keys : GetETag(localStorage, k) # NULL <=> Has(localStorage, k)

\* a cacheService call has just been made while the storage raised or
\* while the record the call reads was corrupted
FailedOpen ==
    /\ last # NULL
    /\ \/ last.fault > 0
       \/ /\ last.op \in {"get", "has", "getCacheAge", "isExpired"}
          /\ last.before.api_cache_[last.key] \in {Garbled, EmptyObject}

\* C19: a cacheService operation whose storage call raises, or which reads
\* a corrupted record, does not raise and reports a miss: null for get,
\* getETag, getIfNoneMatch and getCacheAge, false for has, true for
\* isExpired
C19_FailOpen ==
    FailedOpen =>
        /\ ~last.raised
        /\ last.op \in {"get", "getETag", "getIfNoneMatch", "getCacheAge"} =>
               last.value = NULL
        /\ last.op = "has" => last.value = Bool(FALSE)
        /\ last.op = "isExpired" => last.value = Bool(TRUE)

\* C20: a cacheService.set one of whose writes fails does not raise and
\* leaves localStorage as it was
C20_FailedSetIsNoOp ==
    (last # NULL /\ last.op = "set" /\ last.fault > 0) =>
        /\ ~last.raised
        /\ localStorage = last.before

\* the step changes a cache record of the catalog key
StoreChanges ==
    CacheRecords(localStorage', CatalogKey) # CacheRecords(localStorage, CatalogKey)

\* the step is the response interceptor storing a 2xx response to
\* GET /admin/art that carries an ETag
FetchStores ==
    /\ ReadEnded'
    /\ last'.resp.status \in 200..299
    /\ last'.resp.etag # NULL
    /\ localStorage' =
           Set(localStorage, CatalogKey, last'.resp.data, last'.resp.etag, now)

\* the step is artworkApi.create / update / delete removing the entry
\* after its request succeeded
GatewayEvicts ==
    /\ MutationEnded'
    /\ last'.resp.status \in 200..299
    /\ localStorage' = Remove(localStorage, CatalogKey)
    /\ localStorage' =
           Mutate(last'.op, localStorage, last'.req, last'.resp, now).ls

\* C21: the cache records of the catalog key change only when the response
\* interceptor stores a 200 response and when artworkApi.create / update /
\* delete evicts after a success; no view, no loader and no passing of time
\* changes them
C21_SingleWriter == [][StoreChanges => FetchStores \/ GatewayEvicts]_vars

\* a Prints load that missed the cache has just ended on a 2xx response
\* that carries an ETag and a body
PrintsFetched ==
    /\ LoaderEnded
    /\ last.op = "Prints"
    /\ last.api # NULL
    /\ last.resp.status \in 200..299
    /\ last.resp.etag # NULL
    /\ Truthy(last.resp.data)

\* Prints loads that await the network
Racing == {c \in Slots : calls[c].op = "Prints" /\ calls[c].pc # "idle"}

\* C22: every Prints load that awaits the network missed the cache and has
\* issued its own GET; when its 2xx response with an ETag arrives the entry
\* becomes that response's body and ETag, whatever a fetch that completed
\* earlier stored; when the earlier fetch was given the same catalog version
\* the data and the validator stay what they were and the caller shows the
\* list the entry already held
C22_RacingResolves ==
    /\ \A c \in Racing :
           /\ ~calls[c].hit
           /\ calls[c].sent = 1
           /\ calls[c].req.method = "get"
           /\ calls[c].req.url = "/admin/art"
    /\ PrintsFetched =>
           /\ ~last.hit
           /\ last.sent = 1
           /\ Get(localStorage, CatalogKey) = last.resp.data
           /\ CacheRecords(localStorage, CatalogKey) =
                  CacheRecords(Set(last.before, CatalogKey, last.resp.data,
                                   last.resp.etag, last.at), CatalogKey)
           /\ last.res.list = NormalizePrints(last.resp.data)
    /\ (PrintsFetched /\ Has(last.before, CatalogKey)
          /\ Get(last.before, CatalogKey).ver = last.resp.ver) =>
           /\ Get(localStorage, CatalogKey) = Get(last.before, CatalogKey)
           /\ GetETag(localStorage, CatalogKey) = GetETag(last.before, CatalogKey)
           /\ last.res.list = NormalizePrints(Get(last.before, CatalogKey))

\* the second of two racing loads has completed: it missed the cache when
\* it started, and a fetch that completed in between had stored an entry of
\* the same version, at an earlier time
C22_Witness ==
    /\ PrintsFetched
    /\ ~last.hit
    /\ Has(last.before, CatalogKey)
    /\ Get(last.before, CatalogKey).ver = last.resp.ver
    /\ StoredAt(last.before, CatalogKey).at < last.at
    /\ StoredAt(localStorage, CatalogKey).at = last.at

\* C23: with a clock that never goes back, the timestamp of a stored entry
\* is never later than the clock, and a step that leaves an entry stored
\* for a key that had one never moves its timestamp backward, also when the
\* write is that of a response arriving late
C23_StoredAtMonotone ==
    [][\A k \in Keys :
           /\ Has(localStorage', k) => StoredAt(localStorage', k).at <= now'
           /\ (Has(localStorage, k) /\ Has(localStorage', k)) =>
                  StoredAt(localStorage', k).at >= StoredAt(localStorage, k).at]_vars

\* a response has just been stored over an entry with an earlier timestamp
C23_Witness ==
    /\ ReadEnded
    /\ localStorage # last.before
    /\ Has(last.before, CatalogKey)
    /\ StoredAt(last.before, CatalogKey).at < StoredAt(localStorage, CatalogKey).at
    /\ StoredAt(localStorage, CatalogKey).at = now

\* the step just taken ended an artworkApi.getAll, whoever called it
FetchEnded ==
    /\ last # NULL
    /\ last.api # NULL
    /\ last.req.method = "get"
    /\ last.req.url = "/admin/art"

\* the step just taken called cacheService.set with the body and the ETag
\* of the response
Stored ==
    localStorage =
        Set(last.before, CatalogKey, last.resp.data, last.resp.etag, last.at)

\* C24 as stated: a fetch calls cacheService.set, with the response's body
\* and ETag, exactly when the response is 2xx and carries an ETag; a 304, an
\* error status and a lost response leave localStorage as it was
C24_AsStated ==
    FetchEnded =>
        /\ Stored <=> (last.resp.status \in 200..299 /\ last.resp.etag # NULL)
        /\ last.resp.status \notin 200..299 => localStorage = last.before

\* C24: a fetch calls cacheService.set, with the response's body and ETag,
\* exactly when the response is 2xx, carries an ETag and has a truthy body;
\* in every other case (ETag with a falsy body, no ETag, 304, error status,
\* lost response) localStorage is as it was
C24_OnlyValidated200Stores ==
    FetchEnded =>
        /\ Stored <=> /\ last.resp.status \in 200..299
                      /\ last.resp.etag # NULL
                      /\ Truthy(last.resp.data)
        /\ ~Stored => localStorage = last.before

\* a 200 response with an ETag has replaced an entry that held other data
\* under another validator
C24_Witness ==
    /\ FetchEnded
    /\ last.resp.status = 200
    /\ Stored
    /\ Has(last.before, CatalogKey)
    /\ Get(last.before, CatalogKey) # last.resp.data
    /\ GetETag(last.before, CatalogKey) # last.resp.etag
    /\ Get(localStorage, CatalogKey) = last.resp.data
    /\ GetETag(localStorage, CatalogKey) = last.resp.etag

\* the step builds the GET /admin/art request of call c
Builds(c) ==
    /\ calls[c].pc # "sent"
    /\ calls'[c].pc = "sent"
    /\ calls'[c].req.method = "get"
    /\ calls'[c].req.url = "/admin/art"

\* C25: the GET for the catalog carries If-None-Match exactly when a
\* validator is stored for the catalog key when the request is built, and
\* the header is that validator, the value of getETag('admin_art')
C25_RequestConstruction ==
    [][\A c \in Slots :
           Builds(c) => calls'[c].req.inm = GetETag(localStorage', CatalogKey)]_vars

\* C26: an artworkApi.getAll has sent one request when it ends and sends
\* no other (ManageArtworks.handleDelete has sent the DELETE before); it
\* ends either returning data or throwing, never both and never neither:
\* it returns the body of a 2xx response, or the cached data when the
\* response is a 304, an error or lost and data is cached; otherwise it
\* throws the error, which carries the response status, and returns nothing
C26_OneRequestOneOutcome ==
    FetchEnded =>
        /\ calls[last.slot].pc = "idle"
        /\ last.sent = IF last.op = "handleDelete" THEN 2 ELSE 1
        /\ last.api.ok <=> \/ last.resp.status \in 200..299
                           \/ Truthy(Get(last.before, CatalogKey))
        /\ last.api.ok =>
               IF last.resp.status \in 200..299
               THEN last.api.data = last.resp.data
               ELSE /\ last.api.data = Get(last.before, CatalogKey)
                    /\ Truthy(last.api.data)
        /\ ~last.api.ok =>
               /\ last.api.data = NULL
               /\ last.api.status = last.resp.status
               /\ last.res.data = NULL

\* a fetch whose only request got no response, with nothing cached, threw
C26_Witness ==
    /\ FetchEnded
    /\ last.op = "getAll"
    /\ last.sent = 1
    /\ last.resp.status = 0
    /\ Get(last.before, CatalogKey) = NULL
    /\ ~last.api.ok
    /\ ~last.res.ok
    /\ calls[last.slot].pc = "idle"

\* the validator bundled in the entry record of key (CacheEntry.etag)
BundledETag(ls, key) == JSONparse(ls.api_cache_[key]).etag

\* C27: while an entry is stored for the catalog key, the validator in the
\* entry record, the record etag_admin_art and the record 'If-None-Match'
\* are the same; while none is stored, a GET /admin/art built now carries
\* no If-None-Match
C27_ValidatorRecordsAgree ==
    IF Has(localStorage, CatalogKey)
    THEN /\ BundledETag(localStorage, CatalogKey) = GetETag(localStorage, CatalogKey)
         /\ GetETag(localStorage, CatalogKey) = GetIfNoneMatch(localStorage)
    ELSE RequestInterceptor(localStorage, "get", "/admin/art").inm = NULL

\* the step just taken ended a fetch on a 2xx response without an ETag
\* or with a falsy body
UnvalidatedEnded ==
    /\ FetchEnded
    /\ last.resp.status \in 200..299
    /\ last.resp.etag = NULL \/ ~Truthy(last.resp.data)

\* a view loader starts in the step
LoaderStarts ==
    \/ last' # NULL /\ last'.op \in Loaders /\ last'.api = NULL
    \/ \E c \in Slots : calls[c].pc = "idle" /\ calls'[c].op \in Loaders

\* the fetch returned the body and left localStorage, with the entry's
\* data, validator and timestamp, as it was
C28_BodyReturnedStoreKept ==
    UnvalidatedEnded =>
        /\ last.api.ok
        /\ last.api.data = last.resp.data
        /\ localStorage = last.before
        /\ CacheRecords(localStorage, CatalogKey) =
               CacheRecords(last.before, CatalogKey)

\* a loader that starts next, with no entry stored, misses the cache and
\* sends a GET
C28_NextResolveFetches ==
    (UnvalidatedEnded /\ ~Has(localStorage, CatalogKey) /\ LoaderStarts) =>
        \E c \in Slots :
            /\ calls'[c].op \in Loaders
            /\ calls'[c].pc = "sent"
            /\ ~calls'[c].hit
            /\ calls'[c].req.method = "get"
            /\ calls'[c].req.url = "/admin/art"

\* C28: a 2xx response to GET /admin/art that has no ETag, or a falsy
\* body, is returned to the caller and changes nothing in localStorage: an
\* entry stored before keeps its data and validator, and when none was
\* stored the next loader misses the cache and fetches again
C28_UnvalidatedResponse ==
    [][C28_BodyReturnedStoreKept' /\ C28_NextResolveFetches]_vars

\* a fetch returned a fresh body that came without an ETag while the entry
\* stored before, holding other data, stayed
C28_Witness ==
    /\ UnvalidatedEnded
    /\ last.resp.etag = NULL
    /\ Truthy(last.resp.data)
    /\ last.api.data = last.resp.data
    /\ Has(last.before, CatalogKey)
    /\ Get(localStorage, CatalogKey) # last.resp.data
    /\ Get(localStorage, CatalogKey) = Get(last.before, CatalogKey)

\* a request other than GET /admin/art has just been made and answered
OtherAnswered ==
    /\ last # NULL
    /\ ~(last.req.method = "get" /\ last.req.url = "/admin/art")

C30_ClearRemovesCacheOnly ==
    (last # NULL /\ last.op = "clear") =>
        /\ \A k \in Keys :
               /\ Get(localStorage, k) = NULL
               /\ GetETag(localStorage, k) = NULL
               /\ ~Has(localStorage, k)
               /\ localStorage.api_cache_[k] = NULL
        /\ GetIfNoneMatch(localStorage) = NULL
        /\ localStorage.other = last.before.other
        /\ localStorage.other = OtherKeys
        /\ localStorage = EmptyStorage

\* clear acted on a store holding entries and validators for both keys
C30_Witness ==
    /\ last # NULL
    /\ last.op = "clear"
    /\ \A k \in Keys : Has(last.before, k) /\ GetETag(last.before, k) # NULL
    /\ GetIfNoneMatch(last.before) # NULL
    /\ last.before.other = OtherKeys
    /\ \A k \in Keys : ~Has(localStorage, k)

====
